---- MODULE Spec2Model ----
(***************************************************************************)
(* Model of the retrieval index RAGDemo of                                 *)
(* src/04-code-examples/python/genai_demo.py (lines 55-82).                *)
(*                                                                         *)
(* A document is the sequence of the words of its text; the analyzer of    *)
(* TfidfVectorizer(stop_words='english') lower-cases every word, keeps the *)
(* words of two or more characters and drops the English stop words.       *)
(* Numbers are fixed point: idf weights in 1/1000, components of the       *)
(* l2-normalised rows in 1/10000, similarities in 1/100000000.             *)
(* Sequences are indexed from 1: corpus index i of the code is i+1 here.   *)
(* The library follows scikit-learn >= 1.0, where fit_transform replaces   *)
(* the fitted TfidfTransformer before it builds the vocabulary.            *)
(***************************************************************************)
EXTENDS Integers, Sequences, FiniteSets, TLC

VARIABLES documents, vectorizer, document_vectors, argsort_kind,
          last_call, last_loaded, earlier_terms,
          requests, running, seed_loads,
          projects_db, project_counter, create_calls, issued, api_response,
          setup_env, setup_pc, cwd, setup_log, setup_result,
          prompt, analysis

vars == <<documents, vectorizer, document_vectors, argsort_kind,
          last_call, last_loaded, earlier_terms,
          requests, running, seed_loads,
          projects_db, project_counter, create_calls, issued, api_response,
          setup_env, setup_pc, cwd, setup_log, setup_result,
          prompt, analysis>>

(* The state of the project endpoints of fastapi_app.py, of the setup      *)
(* script setup_project.py and of the prompt analysis of                   *)
(* prompt_engineering.py.                                                  *)
apiVars == <<projects_db, project_counter, create_calls, issued, api_response>>

setupVars == <<setup_env, setup_pc, cwd, setup_log, setup_result>>

promptVars == <<prompt, analysis>>

(* ------------------------------ bounds -------------------------------- *)

MaxDocs == 2

MaxTopK == 2

MaxRequests == 2

MaxCreates == 2

(* ------------------------- inputs of the model ------------------------ *)

(* Documents with terms, and next to them one made of stop words only.     *)
ContentDocs ==
  { <<"AI", "healthcare">>,
    <<"the", "chatbots", "healthcare", "chatbots">> }

DocPool == ContentDocs \cup { <<"the", "a", "of">> }

(* The corpus and the query of main(), lines 113-120.                      *)
DemoCorpus ==
  << <<"AI", "is", "transforming", "healthcare", "through", "improved",
       "diagnosis">>,
     <<"Machine", "learning", "predicts", "equipment", "failures", "in",
       "manufacturing">>,
     <<"AI", "chatbots", "revolutionize", "customer", "service">> >>

DemoQuery == <<"How", "is", "AI", "improving", "healthcare">>

QueryPool ==
  { <<"AI">>,
    <<"healthcare", "chatbots">>,
    <<"robots">>,
    <<"the", "of">>,
    <<>> }

RECURSIVE SeqsUpTo(_, _)
SeqsUpTo(S, n) ==
  IF n = 0 THEN { <<>> }
  ELSE LET shorter == SeqsUpTo(S, n - 1)
       IN  shorter \cup { Append(s, x) : s \in shorter, x \in S }

(* Every corpus of up to MaxDocs documents with terms, and every corpus of *)
(* one or two documents of the pool.                                       *)
Corpora == SeqsUpTo(ContentDocs, MaxDocs) \cup SeqsUpTo(DocPool, 2)

(* Inputs of the demo script: its corpus next to small corpora, and as     *)
(* queries its query and the text of every document that has a term.       *)
DemoCorpora ==
  SeqsUpTo(ContentDocs, MaxDocs)
    \cup { DemoCorpus,
           << <<"the", "a", "of">>, <<"AI", "healthcare">> >>,
           << <<"the", "chatbots", "healthcare", "chatbots">>,
              <<"the", "a", "of">> >> }

DemoQueries ==
  { DemoQuery, DemoCorpus[1], DemoCorpus[2], DemoCorpus[3],
    <<"AI", "healthcare">>,
    <<"the", "chatbots", "healthcare", "chatbots">> }

TopKs == (0 - 1) .. MaxTopK

(* The lists of a caller that keeps mutating the list it has passed.       *)
AliasCorpora == SeqsUpTo(ContentDocs, MaxDocs) \ { <<>> }

AliasQueries == { <<"AI">> }

AliasTopKs == { 1, MaxTopK }

(* sample_docs of rag_search, fastapi_app.py lines 296-302.                *)
SampleDocs ==
  << <<"AI", "is", "transforming", "healthcare", "through", "improved",
       "diagnosis", "and", "treatment", "planning">>,
     <<"Machine", "learning", "algorithms", "can", "predict", "equipment",
       "failures", "in", "manufacturing">>,
     <<"AI", "powered", "chatbots", "revolutionize", "customer", "service",
       "with", "24", "7", "availability">>,
     <<"Generative", "AI", "creates", "new", "opportunities", "in",
       "content", "creation", "and", "creative", "industries">>,
     <<"Edge", "AI", "enables", "real", "time", "processing", "and",
       "privacy", "preserving", "applications">> >>

(* The requests of the model: their ids, queries and top_k fields (a       *)
(* request body may leave top_k out).                                      *)
Requests == 1 .. MaxRequests

Creators == 1 .. MaxCreates

HostQueries == { <<"AI", "healthcare">>, <<"robots">> }

AbsentTopK == [given |-> FALSE, value |-> 0]

RawTopKs ==
  { AbsentTopK } \cup { [given |-> TRUE, value |-> v] : v \in { 0, 1, 10, 11 } }

(* ------------------- TfidfVectorizer: the analyzer -------------------- *)

Lowercase(w) ==
  CASE w = "AI"         -> "ai"
    [] w = "How"        -> "how"
    [] w = "Machine"    -> "machine"
    [] w = "Generative" -> "generative"
    [] w = "Edge"       -> "edge"
    [] OTHER            -> w

OneCharWords == { "a", "7" }

EnglishStopWords ==
  { "the", "of", "a", "is", "how", "through", "in", "and", "can", "with" }

(* The analyzer without stop_words='english'.                              *)
RECURSIVE AnalyzeKeepingStopWords(_)
AnalyzeKeepingStopWords(doc) ==
  IF doc = <<>> THEN <<>>
  ELSE LET w == Lowercase(Head(doc))
       IN  IF w \in OneCharWords
           THEN AnalyzeKeepingStopWords(Tail(doc))
           ELSE <<w>> \o AnalyzeKeepingStopWords(Tail(doc))

RECURSIVE Analyze(_)
Analyze(doc) ==
  IF doc = <<>> THEN <<>>
  ELSE LET w == Lowercase(Head(doc))
       IN  IF w \in OneCharWords \/ w \in EnglishStopWords
           THEN Analyze(Tail(doc))
           ELSE <<w>> \o Analyze(Tail(doc))

Terms(doc) ==
  LET tokens == Analyze(doc)
  IN  { tokens[i] : i \in 1 .. Len(tokens) }

CorpusTerms(docs) == UNION { Terms(docs[i]) : i \in 1 .. Len(docs) }

TermCount(tokens, t) == Cardinality({ i \in 1 .. Len(tokens) : tokens[i] = t })

(* --------------------- TfidfTransformer: weights ---------------------- *)

LnMilli == <<0, 693, 1099, 1386, 1609, 1792, 1946, 2079>>

DocFreq(docs, t) == Cardinality({ i \in 1 .. Len(docs) : t \in Terms(docs[i]) })

SmoothIdf(n, df) == LnMilli[1 + n] - LnMilli[1 + df] + 1000

RECURSIVE SqrtIter(_, _)
SqrtIter(x, r) ==
  LET r2 == (r + (x \div r)) \div 2
  IN  IF r2 >= r THEN r ELSE SqrtIter(x, r2)

ISqrt(x) == IF x = 0 THEN 0 ELSE SqrtIter(x, IF x < 46341 THEN x ELSE 46341)

RECURSIVE SumOver(_, _)
SumOver(f, S) ==
  IF S = {} THEN 0
  ELSE LET t == CHOOSE u \in S : TRUE
       IN  f[t] + SumOver(f, S \ {t})

L2Normalize(row) ==
  LET norm == ISqrt(SumOver([t \in DOMAIN row |-> row[t] * row[t]], DOMAIN row))
  IN  IF norm = 0 THEN row
      ELSE [t \in DOMAIN row |-> (row[t] * 10000) \div norm]

TfidfRow(vec, doc) ==
  LET tokens == Analyze(doc)
  IN  L2Normalize([t \in vec.vocabulary |-> TermCount(tokens, t) * vec.idf[t]])

(* ----------------------- TfidfVectorizer: state ----------------------- *)

NoIdf == [t \in {} |-> 0]

UnfittedVectorizer == [vocabulary |-> {}, fitted |-> FALSE, idf |-> NoIdf]

FitFails(docs) == CorpusTerms(docs) = {}

FittedVectorizer(docs) ==
  LET vocabulary == CorpusTerms(docs)
  IN  [vocabulary |-> vocabulary,
       fitted     |-> TRUE,
       idf        |-> [t \in vocabulary |->
                         SmoothIdf(Len(docs), DocFreq(docs, t))]]

FailedFitVectorizer(vec) ==
  [vocabulary |-> vec.vocabulary, fitted |-> FALSE, idf |-> NoIdf]

FitTransform(docs) ==
  LET vec == FittedVectorizer(docs)
  IN  [i \in 1 .. Len(docs) |-> TfidfRow(vec, docs[i])]

(* fit_transform is a function of the corpus alone: tabulated once.        *)
FitCache ==
  [docs \in Corpora \cup DemoCorpora \cup { SampleDocs } |->
     IF FitFails(docs)
     THEN [raises |-> TRUE, vectorizer |-> UnfittedVectorizer, rows |-> <<>>]
     ELSE [raises |-> FALSE, vectorizer |-> FittedVectorizer(docs),
           rows |-> FitTransform(docs)]]

Transform(vec, query) == TfidfRow(vec, query)

(* ------------------------- cosine_similarity -------------------------- *)

Dot(a, b) == SumOver([t \in DOMAIN a |-> a[t] * b[t]], DOMAIN a)

CosineSimilarity(query_vector, rows) ==
  [i \in 1 .. Len(rows) |-> Dot(query_vector, rows[i])]

(* --------------------- numpy: argsort and slicing --------------------- *)

ArgsortKinds == { "stable", "unstable" }

SortsBefore(kind, sims, j, i) ==
  \/ sims[j] < sims[i]
  \/ /\ sims[j] = sims[i]
     /\ IF kind = "stable" THEN j < i ELSE j > i

(* An argsort whose order among equal keys changes from call to call.      *)
ArgsortVaryingTies(kind, sims) ==
  LET n == Len(sims)
      k == IF last_call.op = "search_documents" THEN "stable" ELSE "unstable"
      pos(i) == 1 + Cardinality({ j \in 1 .. n : SortsBefore(k, sims, j, i) })
  IN  [p \in 1 .. n |-> CHOOSE i \in 1 .. n : pos(i) = p]

(* An argsort of the negated scores: highest first.                        *)
ArgsortDescending(kind, sims) ==
  LET n == Len(sims)
      pos(i) == 1 + Cardinality({ j \in 1 .. n : SortsBefore(kind, sims, i, j) })
  IN  [p \in 1 .. n |-> CHOOSE i \in 1 .. n : pos(i) = p]

Argsort(kind, sims) ==
  LET n == Len(sims)
      pos(i) == 1 + Cardinality({ j \in 1 .. n : SortsBefore(kind, sims, j, i) })
  IN  [p \in 1 .. n |-> CHOOSE i \in 1 .. n : pos(i) = p]

SliceFrom(s, start) ==
  LET n     == Len(s)
      first == IF start < 0
               THEN (IF n + start < 0 THEN 0 ELSE n + start)
               ELSE (IF start > n THEN n ELSE start)
  IN  SubSeq(s, first + 1, n)

(* The slice without the [::-1] step.                                      *)
NotReversed(s) == s

Reversed(s) == [p \in 1 .. Len(s) |-> s[Len(s) + 1 - p]]

(* argsort()[:top_k], the top_k lowest scores.                             *)
TopIndicesLowestFirst(kind, sims, top_k) ==
  LET n    == Len(sims)
      last == IF top_k < 0
              THEN (IF n + top_k < 0 THEN 0 ELSE n + top_k)
              ELSE (IF top_k > n THEN n ELSE top_k)
  IN  SubSeq(Argsort(kind, sims), 1, last)

TopIndices(kind, sims, top_k) ==
  Reversed(SliceFrom(Argsort(kind, sims), 0 - top_k))

(* ---------------------- RAGDemo.search_documents ---------------------- *)

ResultRank(results) == Len(results) + 1

RECURSIVE BuildResults(_, _, _, _)
BuildResults(docs, sims, top_indices, results) ==
  IF top_indices = <<>> THEN results
  ELSE LET idx == Head(top_indices)
       IN  BuildResults(docs, sims, Tail(top_indices),
             Append(results, [document         |-> docs[idx],
                              similarity_score |-> sims[idx],
                              rank             |-> ResultRank(results)]))

Similarities(vec, rows, query) ==
  CosineSimilarity(Transform(vec, query), rows)

(* transform re-fitting the vectorizer on the query (fit_transform).       *)
VectorizerAfterFitTransform(vec, query) ==
  IF vec.fitted /\ ~FitFails(<<query>>) THEN FittedVectorizer(<<query>>) ELSE vec

(* transform reads the fitted vectorizer and leaves it as it is.           *)
VectorizerAfterTransform(vec, query) == vec

(* search_documents without the "if not self.documents" return.           *)
SearchOutcomeUnguarded(docs, vec) ==
  IF ~vec.fitted THEN "NotFittedError" ELSE "ok"

SearchOutcome(docs, vec) ==
  IF docs = <<>> THEN "ok"
  ELSE IF ~vec.fitted THEN "NotFittedError"
  ELSE "ok"

SearchSimilarities(docs, vec, rows, query) ==
  IF SearchOutcome(docs, vec) = "ok" /\ docs # <<>>
  THEN Similarities(vec, rows, query)
  ELSE <<>>

SearchTopIndices(kind, sims, top_k) ==
  IF sims = <<>> THEN <<>> ELSE TopIndices(kind, sims, top_k)

(* documents[idx] of line 77 raises when the list is shorter than the      *)
(* matrix the indices come from.                                           *)
LookupOutcome(docs, top_indices) ==
  IF \E p \in 1 .. Len(top_indices) : top_indices[p] > Len(docs)
  THEN "IndexError"
  ELSE "ok"

SearchResults(docs, sims, top_indices) ==
  IF LookupOutcome(docs, top_indices) = "ok"
  THEN BuildResults(docs, sims, top_indices, <<>>)
  ELSE <<>>

(* ------------------------- the state machine -------------------------- *)

(* last_call records the most recent call: its arguments, whether it       *)
(* raised, what it returned, and the locals similarities and top_indices   *)
(* of search_documents.  repeated tells that the call before it was the    *)
(* same search.  last_loaded is the argument of the latest add_documents;  *)
(* earlier_terms are the terms of the corpora stored before it.            *)
Call(op, docs, query, top_k, outcome, sims, top_indices, results, repeated) ==
  [op |-> op, docs |-> docs, query |-> query, top_k |-> top_k,
   outcome |-> outcome, similarities |-> sims, top_indices |-> top_indices,
   results |-> results, repeated |-> repeated]

(* The server before any request: no request received, the event loop     *)
(* idle, rag_system (fastapi_app.py line 46) never seeded.                 *)
NoResponse == [status |-> 0, results |-> <<>>, total_documents |-> 0]

IdleRequest ==
  [pc |-> "idle", query |-> <<>>, raw_top_k |-> AbsentTopK, top_k |-> 0,
   search_results |-> <<>>, searched_size |-> 0, response |-> NoResponse]

IndexInit ==
  /\ documents = <<>>
  /\ vectorizer = UnfittedVectorizer
  /\ document_vectors = <<>>
  /\ argsort_kind \in ArgsortKinds
  /\ last_call = Call("init", <<>>, <<>>, 0, "ok", <<>>, <<>>, <<>>, FALSE)
  /\ last_loaded = <<>>
  /\ earlier_terms = {}
  /\ requests = [r \in Requests |-> IdleRequest]
  /\ running = 0
  /\ seed_loads = 0

(* projects_db = {} and project_counter = 0, fastapi_app.py lines 82-83;   *)
(* no create_project handler running, no response sent yet.                *)
IdleCreate ==
  [pc |-> "idle", request |-> <<>>, loaded |-> 0, project_id |-> <<>>,
   status |-> 0]

NoApiResponse ==
  [endpoint |-> "none", status |-> 0, success |-> FALSE, detail |-> "",
   project_id |-> <<>>, body |-> <<>>, pipeline_raised |-> FALSE]

ApiInit ==
  /\ projects_db = [id \in {} |-> 0]
  /\ project_counter = 0
  /\ create_calls = [c \in Creators |-> IdleCreate]
  /\ issued = <<>>
  /\ api_response = NoApiResponse

(* The setup script not started, the prompt analysis not called.           *)
SetupIdle ==
  /\ setup_env = [python |-> "none", node |-> "none", npm |-> "none",
                  pip |-> "none", py_files |-> "none", js_files |-> "none",
                  fs |-> "none", path |-> "none"]
  /\ setup_pc = "not_started"
  /\ cwd = "start"
  /\ setup_log = <<>>
  /\ setup_result = "none"

NoAnalysis ==
  [clarity_score |-> 0, specificity_score |-> 0, constraint_score |-> 0,
   examples_score |-> 0, format_score |-> 0, overall_score |-> 0,
   suggestions |-> <<>>, done |-> FALSE]

PromptIdle ==
  /\ prompt = [words |-> 0, contains |-> {}]
  /\ analysis = NoAnalysis

Init == IndexInit /\ ApiInit /\ SetupIdle /\ PromptIdle

(* add_documents extending the stored list instead of replacing it.       *)
ExtendedDocuments(previous, docs) == previous \o docs

StoredDocuments(previous, docs) == docs

add_documents(docs) ==
  /\ documents' = StoredDocuments(documents, docs)
  /\ IF FitCache[docs].raises
     THEN /\ vectorizer' = FailedFitVectorizer(vectorizer)
          /\ document_vectors' = document_vectors
          /\ last_call' = Call("add_documents", docs, <<>>, 0, "ValueError",
                               <<>>, <<>>, <<>>, FALSE)
     ELSE /\ vectorizer' = FitCache[docs].vectorizer
          /\ document_vectors' = FitCache[docs].rows
          /\ last_call' = Call("add_documents", docs, <<>>, 0, "ok",
                               <<>>, <<>>, <<>>, FALSE)
  /\ last_loaded' = docs
  /\ earlier_terms' = earlier_terms \cup CorpusTerms(documents)
  /\ UNCHANGED argsort_kind

search_documents(query, top_k) ==
  LET sims        == SearchSimilarities(documents, vectorizer,
                                        document_vectors, query)
      top_indices == SearchTopIndices(argsort_kind, sims, top_k)
      same        == /\ last_call.op = "search_documents"
                     /\ last_call.query = query
                     /\ last_call.top_k = top_k
      outcome     == IF SearchOutcome(documents, vectorizer) # "ok"
                     THEN SearchOutcome(documents, vectorizer)
                     ELSE LookupOutcome(documents, top_indices)
  IN  /\ last_call' = Call("search_documents", <<>>, query, top_k,
                           outcome, sims, top_indices,
                           SearchResults(documents, sims, top_indices), same)
      /\ vectorizer' = IF documents = <<>> THEN vectorizer
                        ELSE VectorizerAfterTransform(vectorizer, query)
      /\ UNCHANGED <<documents, document_vectors, argsort_kind,
                     last_loaded, earlier_terms>>

AddStep ==
  /\ \E docs \in Corpora : add_documents(docs)
  /\ UNCHANGED <<requests, running, seed_loads>>
  /\ UNCHANGED <<apiVars, setupVars, promptVars>>

SearchStep ==
  /\ \E query \in QueryPool, top_k \in TopKs : search_documents(query, top_k)
  /\ UNCHANGED <<requests, running, seed_loads>>
  /\ UNCHANGED <<apiVars, setupVars, promptVars>>

Next == AddStep \/ SearchStep

Spec == Init /\ [][Next]_vars

(* The index driven with the inputs of the demo script.                    *)
DemoAddStep ==
  /\ \E docs \in DemoCorpora : add_documents(docs)
  /\ UNCHANGED <<requests, running, seed_loads>>
  /\ UNCHANGED <<apiVars, setupVars, promptVars>>

DemoSearchStep ==
  /\ \E query \in DemoQueries, top_k \in TopKs : search_documents(query, top_k)
  /\ UNCHANGED <<requests, running, seed_loads>>
  /\ UNCHANGED <<apiVars, setupVars, promptVars>>

DemoNext == DemoAddStep \/ DemoSearchStep

DemoSpec == Init /\ [][DemoNext]_vars

(* --------------- a caller that keeps the list it passed --------------- *)

(* add_documents stores the caller's list object itself (line 62), so      *)
(* after a load self.documents and the caller's list are one object: what  *)
(* the caller does to its list happens to self.documents.                  *)
Aliased == last_loaded # <<>>

CallerMutation(docs) ==
  /\ Aliased
  /\ documents' = docs
  /\ last_call' = Call("caller_mutation", docs, <<>>, 0, "ok",
                       <<>>, <<>>, <<>>, FALSE)
  /\ UNCHANGED <<vectorizer, document_vectors, argsort_kind, last_loaded,
                 earlier_terms, requests, running, seed_loads>>
  /\ UNCHANGED <<apiVars, setupVars, promptVars>>

CallerAppends ==
  /\ Len(documents) <= MaxDocs
  /\ \E d \in ContentDocs : CallerMutation(Append(documents, d))

CallerRemoves ==
  /\ documents # <<>>
  /\ CallerMutation(SubSeq(documents, 1, Len(documents) - 1))

CallerReplaces ==
  \E i \in 1 .. Len(documents), d \in ContentDocs :
     /\ documents[i] # d
     /\ CallerMutation([documents EXCEPT ![i] = d])

AliasAddStep ==
  /\ \E docs \in AliasCorpora : add_documents(docs)
  /\ UNCHANGED <<requests, running, seed_loads>>
  /\ UNCHANGED <<apiVars, setupVars, promptVars>>

AliasSearchStep ==
  /\ \E query \in AliasQueries, top_k \in AliasTopKs :
        search_documents(query, top_k)
  /\ UNCHANGED <<requests, running, seed_loads>>
  /\ UNCHANGED <<apiVars, setupVars, promptVars>>

AliasNext ==
  \/ AliasAddStep
  \/ AliasSearchStep
  \/ CallerAppends
  \/ CallerRemoves
  \/ CallerReplaces

AliasSpec == Init /\ [][AliasNext]_vars

(* ------------- the request server: POST /api/rag-search --------------- *)

(* RAGRequest.top_k: int = Field(3, ge=1, le=10), fastapi_app.py line 60.  *)
TopKDefault == 3

TopKMin == 1

TopKMax == 10

(* Validation that accepts any top_k up to the maximum (no ge=1).          *)
ValidTopKNoMinimum(raw) == ~raw.given \/ raw.value <= TopKMax

ValidTopK(raw) ==
  ~raw.given \/ (raw.value >= TopKMin /\ raw.value <= TopKMax)

TopKOf(raw) == IF raw.given THEN raw.value ELSE TopKDefault

(* Handlers run as threads of a pool: any of them may take a step.         *)
MayRunInThread(r) == TRUE

(* rag_search is a coroutine without an await: the event loop runs one     *)
(* handler at a time, from its first line to its return.                   *)
MayRun(r) ==
  IF requests[r].pc = "ready" THEN running = 0 ELSE running = r

(* A handler that seeds on every request.                                  *)
SeedsAlways(docs) == TRUE

(* "if not rag_system.documents", line 295.                               *)
NeedsSeed(docs) == docs = <<>>

(* total_documents taken from the result list.                             *)
TotalOfResults(docs, results) == Len(results)

(* "total_documents": len(rag_system.documents), line 311.                 *)
ResponseTotal(docs, results) == Len(docs)

Response(status, results, total) ==
  [status |-> status, results |-> results, total_documents |-> total]

(* The body of a request is parsed into a RAGRequest before the handler    *)
(* is called; a top_k outside the field's range is answered with 422.      *)
ReceiveRequest(r) ==
  /\ requests[r].pc = "idle"
  /\ \E query \in HostQueries, raw \in RawTopKs :
        requests' = [requests EXCEPT ![r] =
           IF ValidTopK(raw)
           THEN [@ EXCEPT !.pc = "ready", !.query = query,
                          !.raw_top_k = raw, !.top_k = TopKOf(raw)]
           ELSE [@ EXCEPT !.pc = "done", !.query = query, !.raw_top_k = raw,
                          !.response = Response(422, <<>>, 0)]]
  /\ UNCHANGED <<documents, vectorizer, document_vectors, argsort_kind,
                 last_call, last_loaded, earlier_terms, running, seed_loads>>
  /\ UNCHANGED <<apiVars, setupVars, promptVars>>

StartHandler(r) ==
  /\ requests[r].pc = "ready"
  /\ MayRun(r)
  /\ running' = r
  /\ requests' = [requests EXCEPT ![r].pc = "check"]
  /\ UNCHANGED <<documents, vectorizer, document_vectors, argsort_kind,
                 last_call, last_loaded, earlier_terms, seed_loads>>
  /\ UNCHANGED <<apiVars, setupVars, promptVars>>

CheckDocuments(r) ==
  /\ requests[r].pc = "check"
  /\ MayRun(r)
  /\ requests' = [requests EXCEPT ![r].pc =
                    IF NeedsSeed(documents) THEN "assign" ELSE "search"]
  /\ UNCHANGED <<documents, vectorizer, document_vectors, argsort_kind,
                 last_call, last_loaded, earlier_terms, running, seed_loads>>
  /\ UNCHANGED <<apiVars, setupVars, promptVars>>

(* add_documents(sample_docs), first statement: self.documents = documents *)
SeedAssign(r) ==
  /\ requests[r].pc = "assign"
  /\ MayRun(r)
  /\ documents' = StoredDocuments(documents, SampleDocs)
  /\ last_loaded' = SampleDocs
  /\ earlier_terms' = earlier_terms \cup CorpusTerms(documents)
  /\ seed_loads' = seed_loads + 1
  /\ requests' = [requests EXCEPT ![r].pc = "fit"]
  /\ UNCHANGED <<vectorizer, document_vectors, argsort_kind, last_call,
                 running>>
  /\ UNCHANGED <<apiVars, setupVars, promptVars>>

(* add_documents(sample_docs), second statement: fit_transform and the     *)
(* assignment of self.document_vectors.  An exception ends the handler     *)
(* with status 500 (lines 314-316).                                        *)
SeedFit(r) ==
  /\ requests[r].pc = "fit"
  /\ MayRun(r)
  /\ IF FitCache[SampleDocs].raises
     THEN /\ vectorizer' = FailedFitVectorizer(vectorizer)
          /\ document_vectors' = document_vectors
          /\ last_call' = Call("add_documents", SampleDocs, <<>>, 0,
                               "ValueError", <<>>, <<>>, <<>>, FALSE)
          /\ requests' = [requests EXCEPT ![r].pc = "done",
                             ![r].response = Response(500, <<>>, 0)]
          /\ running' = 0
     ELSE /\ vectorizer' = FitCache[SampleDocs].vectorizer
          /\ document_vectors' = FitCache[SampleDocs].rows
          /\ last_call' = Call("add_documents", SampleDocs, <<>>, 0, "ok",
                               <<>>, <<>>, <<>>, FALSE)
          /\ requests' = [requests EXCEPT ![r].pc = "search"]
          /\ running' = running
  /\ UNCHANGED <<documents, argsort_kind, last_loaded, earlier_terms,
                 seed_loads>>
  /\ UNCHANGED <<apiVars, setupVars, promptVars>>

(* search_results = rag_system.search_documents(query, top_k), line 305.   *)
HandlerSearch(r) ==
  /\ requests[r].pc = "search"
  /\ MayRun(r)
  /\ search_documents(requests[r].query, requests[r].top_k)
  /\ IF last_call'.outcome = "ok"
     THEN /\ requests' = [requests EXCEPT ![r].pc = "respond",
                             ![r].search_results = last_call'.results,
                             ![r].searched_size = Len(documents)]
          /\ running' = running
     ELSE /\ requests' = [requests EXCEPT ![r].pc = "done",
                             ![r].response = Response(500, <<>>, 0)]
          /\ running' = 0
  /\ UNCHANGED seed_loads
  /\ UNCHANGED <<apiVars, setupVars, promptVars>>

(* The returned dictionary, lines 307-313 (its timestamp is left out).     *)
Respond(r) ==
  /\ requests[r].pc = "respond"
  /\ MayRun(r)
  /\ requests' = [requests EXCEPT ![r].pc = "done",
        ![r].response = Response(200, requests[r].search_results,
                           ResponseTotal(documents,
                                         requests[r].search_results))]
  /\ running' = 0
  /\ UNCHANGED <<documents, vectorizer, document_vectors, argsort_kind,
                 last_call, last_loaded, earlier_terms, seed_loads>>
  /\ UNCHANGED <<apiVars, setupVars, promptVars>>

HostNext ==
  \E r \in Requests :
     \/ ReceiveRequest(r)
     \/ StartHandler(r)
     \/ CheckDocuments(r)
     \/ SeedAssign(r)
     \/ SeedFit(r)
     \/ HandlerSearch(r)
     \/ Respond(r)

HostSpec == Init /\ [][HostNext]_vars

(* ------------- the request server: the project endpoints ------------- *)

(* f"proj_{project_counter:04d}", fastapi_app.py line 362: the decimal     *)
(* digits of the counter, padded with zeros to four characters.            *)
DigitChars == <<"0", "1", "2", "3", "4", "5", "6", "7", "8", "9">>

RECURSIVE Digits(_)
Digits(n) ==
  IF n < 10 THEN <<DigitChars[n + 1]>>
  ELSE Append(Digits(n \div 10), DigitChars[(n % 10) + 1])

RECURSIVE ZeroPad(_, _)
ZeroPad(ds, width) ==
  IF Len(ds) >= width THEN ds ELSE ZeroPad(<<"0">> \o ds, width)

IdWidth == 4

FormatProjectId(n) == <<"proj_">> \o ZeroPad(Digits(n), IdWidth)

(* Bodies of POST /api/projects, ids asked for by the clients, and bodies  *)
(* of PUT /api/projects/{id}/metrics.                                      *)
NewProjectRequests ==
  { [name |-> "chatbot", description |-> "support bot",
     model_type |-> "llm", use_case |-> "customer service"],
    [name |-> "vision", description |-> "defect detection",
     model_type |-> "cnn", use_case |-> "manufacturing"] }

RequestedIds ==
  { FormatProjectId(k) : k \in 0 .. MaxCreates } \cup { <<"proj_", "1">> }

MetricUpdates ==
  { [k \in {} |-> ""],
    [k \in { "accuracy", "f1", "last_updated" } |->
       IF k = "accuracy" THEN "0.9"
       ELSE IF k = "f1" THEN "0.8" ELSE "client time"] }

(* datetime.now().isoformat()                                              *)
ServerTime == "server time"

(* A project created with another status.                                  *)
DraftStatus == "draft"

InitialStatus == "active"

NewProject(project_id, request) ==
  [id |-> project_id, name |-> request.name,
   description |-> request.description, model_type |-> request.model_type,
   use_case |-> request.use_case, created_date |-> ServerTime,
   status |-> InitialStatus,
   performance_metrics |->
     [k \in { "accuracy", "latency", "user_satisfaction", "last_updated" } |->
        IF k = "last_updated" THEN ServerTime ELSE "0.0"]]

ApiResponse(endpoint, status, success, detail, project_id, body, raised) ==
  [endpoint |-> endpoint, status |-> status, success |-> success,
   detail |-> detail, project_id |-> project_id, body |-> body,
   pipeline_raised |-> raised]

(* create_project handlers run as threads of a pool.                       *)
CreateMayRunInThread(c) == TRUE

(* create_project is a coroutine without an await: the event loop runs it  *)
(* from its first line to its return before any other handler.             *)
CreateMayRun(c) ==
  IF create_calls[c].pc = "idle" THEN running = 0 ELSE running = c

StartCreate(c) ==
  /\ create_calls[c].pc = "idle"
  /\ CreateMayRun(c)
  /\ \E request \in NewProjectRequests :
        create_calls' = [create_calls EXCEPT ![c].pc = "load",
                                             ![c].request = request]
  /\ running' = c
  /\ UNCHANGED <<projects_db, project_counter, issued, api_response>>

(* project_counter += 1, line 361: the global is read ...                  *)
CreateLoad(c) ==
  /\ create_calls[c].pc = "load"
  /\ CreateMayRun(c)
  /\ create_calls' = [create_calls EXCEPT ![c].pc = "store",
                                          ![c].loaded = project_counter]
  /\ UNCHANGED <<projects_db, project_counter, issued, api_response, running>>

(* ... and written.                                                        *)
CreateStore(c) ==
  /\ create_calls[c].pc = "store"
  /\ CreateMayRun(c)
  /\ project_counter' = create_calls[c].loaded + 1
  /\ create_calls' = [create_calls EXCEPT ![c].pc = "format"]
  /\ UNCHANGED <<projects_db, issued, api_response, running>>

(* project_id = f"proj_{project_counter:04d}", line 362                    *)
CreateFormat(c) ==
  /\ create_calls[c].pc = "format"
  /\ CreateMayRun(c)
  /\ create_calls' = [create_calls EXCEPT ![c].pc = "insert",
                         ![c].project_id = FormatProjectId(project_counter)]
  /\ issued' = Append(issued, project_counter)
  /\ UNCHANGED <<projects_db, project_counter, api_response, running>>

(* projects_db[project_id] = project; return project, lines 365-386        *)
CreateInsert(c) ==
  /\ create_calls[c].pc = "insert"
  /\ CreateMayRun(c)
  /\ LET project_id == create_calls[c].project_id
         project    == NewProject(project_id, create_calls[c].request)
     IN  /\ projects_db' = (project_id :> project) @@ projects_db
         /\ api_response' = ApiResponse("create_project", 200, TRUE, "",
                                        project_id, project, FALSE)
  /\ create_calls' = [create_calls EXCEPT ![c].pc = "done",
                                          ![c].status = 200]
  /\ running' = 0
  /\ UNCHANGED <<project_counter, issued>>

(* A handler with "except Exception" only: the 404 becomes a 500.         *)
WrappedStatus(raised_status) == 500

(* "except HTTPException: raise", lines 404-405 and 422-423.              *)
PropagatedStatus(raised_status) == raised_status

NotFound(endpoint, project_id) ==
  ApiResponse(endpoint, PropagatedStatus(404), FALSE, "Project not found",
              project_id, <<>>, FALSE)

get_project(project_id) ==
  /\ running = 0
  /\ api_response' =
       IF project_id \notin DOMAIN projects_db
       THEN NotFound("get_project", project_id)
       ELSE ApiResponse("get_project", 200, TRUE, "", project_id,
                        projects_db[project_id], FALSE)
  /\ UNCHANGED <<projects_db, project_counter, create_calls, issued, running>>

(* performance_metrics = metrics instead of performance_metrics.update.    *)
ReplacedMetrics(old, metrics) == metrics

UpdatedMetrics(old, metrics) == metrics @@ old

StampedMetrics(performance_metrics) ==
  ("last_updated" :> ServerTime) @@ performance_metrics

update_project_metrics(project_id, metrics) ==
  /\ running = 0
  /\ IF project_id \notin DOMAIN projects_db
     THEN /\ api_response' = NotFound("update_project_metrics", project_id)
          /\ UNCHANGED projects_db
     ELSE /\ projects_db' =
               [projects_db EXCEPT ![project_id].performance_metrics =
                  StampedMetrics(UpdatedMetrics(@, metrics))]
          /\ api_response' =
               ApiResponse("update_project_metrics", 200, TRUE,
                           "Metrics updated successfully", project_id,
                           metrics, FALSE)
  /\ UNCHANGED <<project_counter, create_calls, issued, running>>

get_api_stats ==
  /\ running = 0
  /\ api_response' =
       ApiResponse("get_api_stats", 200, TRUE, "", <<>>,
         [total_projects  |-> Cardinality(DOMAIN projects_db),
          active_projects |->
            Cardinality({ id \in DOMAIN projects_db :
                            projects_db[id].status = "active" }),
          total_documents |-> Len(documents)],
         FALSE)
  /\ UNCHANGED <<projects_db, project_counter, create_calls, issued, running>>

(* ------------ the request server: the pipeline endpoints -------------- *)

(* What a transformers pipeline does with a call: it answers or raises.    *)
PipelineOutcomes == { "ok", "raises" }

(* TextGenerationDemo.generate_text, genai_demo.py lines 37-42: an         *)
(* exception of the pipeline is returned as the text "Error: ...".         *)
GenerateText(outcome) ==
  IF outcome = "ok" THEN [raised |-> FALSE, value |-> "generated text"]
  ELSE [raised |-> FALSE, value |-> "Error: pipeline failed"]

(* TextGenerationDemo.analyze_sentiment, lines 44-53: an exception of the  *)
(* pipeline is returned as the dictionary {"error": ...}.                  *)
AnalyzeSentiment(outcome) ==
  IF outcome = "ok"
  THEN [raised |-> FALSE,
        value |-> [k \in { "text", "sentiment", "confidence" } |->
                     IF k = "sentiment" THEN "POSITIVE"
                     ELSE IF k = "confidence" THEN "0.99" ELSE "text"]]
  ELSE [raised |-> FALSE,
        value |-> [k \in { "error" } |-> "pipeline failed"]]

(* dict.get(key, default)                                                  *)
DictGet(d, key, default) == IF key \in DOMAIN d THEN d[key] ELSE default

(* POST /api/generate-text, fastapi_app.py lines 252-271                   *)
generate_text(model_type, outcome) ==
  /\ running = 0
  /\ LET called == model_type = "local"
         result == IF called THEN GenerateText(outcome)
                   ELSE [raised |-> FALSE, value |-> "not implemented yet"]
         failed == called /\ outcome = "raises"
     IN  api_response' =
           IF result.raised
           THEN ApiResponse("generate_text", 500, FALSE, "pipeline failed",
                            <<>>, <<>>, failed)
           ELSE ApiResponse("generate_text", 200, TRUE, "", <<>>,
                            [generated_text |-> result.value,
                             model_type |-> model_type], failed)
  /\ UNCHANGED <<projects_db, project_counter, create_calls, issued, running>>

(* POST /api/analyze-sentiment, lines 273-288                              *)
analyze_sentiment(outcome) ==
  /\ running = 0
  /\ LET result == AnalyzeSentiment(outcome)
     IN  api_response' =
           IF result.raised
           THEN ApiResponse("analyze_sentiment", 500, FALSE,
                            "pipeline failed", <<>>, <<>>, outcome = "raises")
           ELSE ApiResponse("analyze_sentiment", 200, TRUE, "", <<>>,
                  [sentiment  |-> DictGet(result.value, "sentiment", "unknown"),
                   confidence |-> DictGet(result.value, "confidence", "0.0")],
                  outcome = "raises")
  /\ UNCHANGED <<projects_db, project_counter, create_calls, issued, running>>

ApiFrame ==
  UNCHANGED <<documents, vectorizer, document_vectors, argsort_kind,
              last_call, last_loaded, earlier_terms, requests, seed_loads,
              setupVars, promptVars>>

CreateStep ==
  /\ \E c \in Creators :
        \/ StartCreate(c)
        \/ CreateLoad(c)
        \/ CreateStore(c)
        \/ CreateFormat(c)
        \/ CreateInsert(c)
  /\ ApiFrame

GetStep == (\E id \in RequestedIds : get_project(id)) /\ ApiFrame

UpdateStep ==
  /\ \E id \in RequestedIds, metrics \in MetricUpdates :
        update_project_metrics(id, metrics)
  /\ ApiFrame

StatsStep == get_api_stats /\ ApiFrame

GenerateStep ==
  /\ \E model_type \in { "local", "remote" }, outcome \in PipelineOutcomes :
        generate_text(model_type, outcome)
  /\ ApiFrame

SentimentStep ==
  (\E outcome \in PipelineOutcomes : analyze_sentiment(outcome)) /\ ApiFrame

ApiNext ==
  \/ CreateStep
  \/ GetStep
  \/ UpdateStep
  \/ StatsStep
  \/ GenerateStep
  \/ SentimentStep

ApiSpec == Init /\ [][ApiNext]_vars

(* ------------------- setup_project.py: ProjectSetup ------------------- *)

(* The machine the script runs on.  python: the interpreter is 3.8 or      *)
(* newer ("ok") or older; node and npm: the command answers, fails, or is  *)
(* not installed; pip: the installs succeed or fail; py_files, js_files:   *)
(* requirements.txt, resp. package.json of the JavaScript examples, is     *)
(* there or not; fs: files can be written or not.  path: project_root =    *)
(* Path(__file__).parent (line 16) is absolute (Python 3.9 and later), or  *)
(* relative (Python 3.8 started with a relative script path): "." when     *)
(* started in the project directory, a path below the starting directory   *)
(* when started elsewhere.                                                 *)
Environments ==
  [python : { "ok", "old" }, node : { "ok", "fails", "missing" },
   npm : { "ok", "fails", "missing" }, pip : { "ok", "fails" },
   py_files : { "ok", "missing" }, js_files : { "ok", "missing" },
   fs : { "ok", "readonly" },
   path : { "absolute", "relative_here", "relative_elsewhere" }]

(* Directories the process can be in: where it was started ("start", not   *)
(* the project directory), project_root, js_dir and web_dir.               *)
StartDirs(env) ==
  IF env.path = "absolute" THEN { "start", "project_root" }
  ELSE IF env.path = "relative_here" THEN { "project_root" }
  ELSE { "start" }

(* The directory relative paths of the script are meant from.              *)
BaseDir(env) == IF env.path = "relative_elsewhere" THEN "start" ELSE "project_root"

AtBase(env, dir) == env.path = "absolute" \/ dir = BaseDir(env)

(* Path.exists() of a path below project_root.                             *)
Exists(env, dir, present) == present /\ AtBase(env, dir)

(* os.chdir(target): the directory the process is in afterwards, or the    *)
(* failure to find a relative target from the current directory.           *)
Chdir(env, dir, target) ==
  IF env.path = "absolute" THEN [ok |-> TRUE, cwd |-> target]
  ELSE IF env.path = "relative_here" /\ target = "project_root"
  THEN [ok |-> TRUE, cwd |-> dir]
  ELSE IF dir = BaseDir(env) THEN [ok |-> TRUE, cwd |-> target]
  ELSE [ok |-> FALSE, cwd |-> dir]

Outcome(result, dir) == [result |-> result, cwd |-> dir]

(* lines 56-66                                                             *)
CheckPythonVersion(env, dir) ==
  Outcome(IF env.python = "old" THEN "False" ELSE "True", dir)

(* lines 68-83                                                             *)
CheckNodeVersion(env, dir) ==
  Outcome(IF env.node = "ok" THEN "True" ELSE "False", dir)

(* lines 85-111                                                            *)
InstallPythonDependencies(env, dir) ==
  IF ~Exists(env, dir, env.py_files = "ok") THEN Outcome("False", dir)
  ELSE IF env.pip = "fails" THEN Outcome("False", dir)
  ELSE Outcome("True", dir)

(* try: os.chdir(target); subprocess.run(['npm', 'install'], check=True)   *)
(* except CalledProcessError: return False                                 *)
(* finally: os.chdir(self.project_root)         lines 126-140 and 336-345  *)
NpmInstallIn(env, dir, target) ==
  LET entered == Chdir(env, dir, target)
      body    == IF ~entered.ok THEN Outcome("FileNotFoundError", dir)
                 ELSE IF env.npm = "ok" THEN Outcome("True", entered.cwd)
                 ELSE IF env.npm = "fails" THEN Outcome("False", entered.cwd)
                 ELSE Outcome("FileNotFoundError", entered.cwd)
      back    == Chdir(env, body.cwd, "project_root")
  IN  IF back.ok THEN Outcome(body.result, back.cwd)
      ELSE Outcome("FileNotFoundError", body.cwd)

(* lines 113-140                                                           *)
InstallNodeDependencies(env, dir) ==
  IF ~Exists(env, dir, env.js_files = "ok") THEN Outcome("False", dir)
  ELSE NpmInstallIn(env, dir, "js_dir")

(* lines 327-345; web_dir was made by create_web_app                       *)
InstallWebDependencies(env, dir) ==
  IF ~Exists(env, dir, TRUE) THEN Outcome("False", dir)
  ELSE NpmInstallIn(env, dir, "web_dir")

(* create_web_app, create_demo_scripts, create_presentation_materials      *)
(* (lines 142-325, 347-410, 412-497) write files below project_root and    *)
(* return True; a failing mkdir or open raises.                            *)
WriteFiles(env, dir) ==
  IF env.fs = "ok" /\ AtBase(env, dir) THEN Outcome("True", dir)
  ELSE Outcome("OSError", dir)

(* run_tests (lines 499-532) catches every exception; its value is not     *)
(* used.  print_final_instructions (lines 534-563) prints.                 *)
RunTests(env, dir) == Outcome("True", dir)

PrintFinalInstructions(env, dir) == Outcome("None", dir)

(* The order of the calls of setup(), lines 573-604.                       *)
StepOrder ==
  << "check_python_version", "check_node_version",
     "install_python_dependencies", "install_node_dependencies",
     "create_web_app", "install_web_dependencies", "create_demo_scripts",
     "create_presentation_materials", "run_tests",
     "print_final_instructions" >>

(* setup() going on after a failed pip install.                            *)
FatalStepsWithoutPip ==
  { "check_python_version", "create_web_app", "create_demo_scripts",
    "create_presentation_materials" }

(* The steps setup() returns False after: "if not self.step(): return      *)
(* False", lines 573, 579, 587, 594, 597.                                  *)
FatalSteps ==
  { "check_python_version", "install_python_dependencies", "create_web_app",
    "create_demo_scripts", "create_presentation_materials" }

(* node_available = self.check_node_version(), line 576                    *)
NodeAvailable(log) ==
  \E i \in 1 .. Len(log) :
     log[i].step = "check_node_version" /\ log[i].result = "True"

(* The call that follows a step that let setup() go on.                    *)
FollowingStep(step, node_available) ==
  IF step = "install_python_dependencies" /\ ~node_available
  THEN "create_web_app"
  ELSE StepOrder[(CHOOSE i \in 1 .. Len(StepOrder) : StepOrder[i] = step) + 1]

(* One call of setup(): its entry in the log, the working directory it     *)
(* leaves, and where setup() goes next.                                    *)
RunStep(step, out) ==
  /\ setup_pc = step
  /\ setup_log' = Append(setup_log, [step |-> step, result |-> out.result])
  /\ cwd' = out.cwd
  /\ IF out.result \in { "FileNotFoundError", "OSError" }
     THEN setup_pc' = "raised" /\ setup_result' = out.result
     ELSE IF step \in FatalSteps /\ out.result = "False"
     THEN setup_pc' = "returned" /\ setup_result' = "False"
     ELSE IF step = "print_final_instructions"
     THEN setup_pc' = "returned" /\ setup_result' = "True"
     ELSE /\ setup_pc' = FollowingStep(step, NodeAvailable(setup_log'))
          /\ setup_result' = setup_result
  /\ UNCHANGED setup_env

SetupFrame ==
  UNCHANGED <<documents, vectorizer, document_vectors, argsort_kind,
              last_call, last_loaded, earlier_terms, requests, running,
              seed_loads, apiVars, promptVars>>

(* setup = ProjectSetup(); setup.setup()     lines 610-613 and 565-570     *)
start_setup ==
  /\ setup_pc = "not_started"
  /\ setup_pc' = "check_python_version"
  /\ UNCHANGED <<setup_env, cwd, setup_log, setup_result>>
  /\ SetupFrame

check_python_version ==
  RunStep("check_python_version", CheckPythonVersion(setup_env, cwd))
    /\ SetupFrame

check_node_version ==
  RunStep("check_node_version", CheckNodeVersion(setup_env, cwd))
    /\ SetupFrame

install_python_dependencies ==
  RunStep("install_python_dependencies",
          InstallPythonDependencies(setup_env, cwd)) /\ SetupFrame

install_node_dependencies ==
  RunStep("install_node_dependencies",
          InstallNodeDependencies(setup_env, cwd)) /\ SetupFrame

create_web_app ==
  RunStep("create_web_app", WriteFiles(setup_env, cwd)) /\ SetupFrame

install_web_dependencies ==
  RunStep("install_web_dependencies",
          InstallWebDependencies(setup_env, cwd)) /\ SetupFrame

create_demo_scripts ==
  RunStep("create_demo_scripts", WriteFiles(setup_env, cwd)) /\ SetupFrame

create_presentation_materials ==
  RunStep("create_presentation_materials", WriteFiles(setup_env, cwd))
    /\ SetupFrame

run_tests ==
  RunStep("run_tests", RunTests(setup_env, cwd)) /\ SetupFrame

print_final_instructions ==
  RunStep("print_final_instructions", PrintFinalInstructions(setup_env, cwd))
    /\ SetupFrame

SetupInit ==
  /\ IndexInit
  /\ ApiInit
  /\ PromptIdle
  /\ setup_env \in Environments
  /\ setup_pc = "not_started"
  /\ cwd \in StartDirs(setup_env)
  /\ setup_log = <<>>
  /\ setup_result = "none"

SetupNext ==
  \/ start_setup
  \/ check_python_version
  \/ check_node_version
  \/ install_python_dependencies
  \/ install_node_dependencies
  \/ create_web_app
  \/ install_web_dependencies
  \/ create_demo_scripts
  \/ create_presentation_materials
  \/ run_tests
  \/ print_final_instructions

SetupSpec == SetupInit /\ [][SetupNext]_vars

(* ------ prompt_engineering.py: analyze_prompt_effectiveness ----------- *)

(* A prompt is what the analysis reads of it: the number of its words      *)
(* (len(prompt.split())) and which of the looked-for strings occur in its  *)
(* lower-cased text.  Scores are integers; overall_score, a float with one *)
(* decimal, is kept in tenths.                                             *)
ClarityShort == 50

ClarityMedium == 200

SpecificityLong == 100

SpecificityWords == { "specific", "exact", "precise", "detailed" }

ConstraintWords ==
  { "maximum", "minimum", "exactly", "only", "must", "should" }

StructureWords == { "format", "structure", "json", "xml", "table" }

ExampleWords == { "example", "for instance" }

FormatWords == { "format", "output", "response", "answer" }

(* The strings the prompts of the model are made with, and the word counts *)
(* around the thresholds; 8 words and none of the strings is the sample    *)
(* prompt of demonstrate_techniques (line 244).                            *)
Markers ==
  { "?", "exact", "exactly", "must", "format", "json", "example", "output" }

(* A text that contains "exactly" contains "exact"; a text without words   *)
(* contains nothing.                                                       *)
Prompts ==
  { p \in [words : { 0, 8, ClarityShort - 1, ClarityShort, SpecificityLong,
                     SpecificityLong + 1, ClarityMedium - 1, ClarityMedium },
            contains : SUBSET Markers] :
      /\ ("exactly" \in p.contains => "exact" \in p.contains)
      /\ (p.words = 0 => p.contains = {}) }

ContainsAny(p, words) == p.contains \cap words # {}

(* lines 156-162                                                           *)
ClarityScore(p) ==
  IF p.words < ClarityShort THEN 2
  ELSE IF p.words < ClarityMedium THEN 4
  ELSE 5

(* lines 165-170                                                           *)
SpecificityScore(p) ==
  (IF "?" \in p.contains THEN 2 ELSE 0)
    + (IF ContainsAny(p, SpecificityWords) THEN 2 ELSE 0)
    + (IF p.words > SpecificityLong THEN 1 ELSE 0)

(* lines 173-176                                                           *)
ConstraintScore(p) ==
  (IF ContainsAny(p, ConstraintWords) THEN 3 ELSE 0)
    + (IF ContainsAny(p, StructureWords) THEN 2 ELSE 0)

(* lines 179-180                                                           *)
ExamplesScore(p) == IF ContainsAny(p, ExampleWords) THEN 3 ELSE 0

(* lines 183-184                                                           *)
FormatScore(p) == IF ContainsAny(p, FormatWords) THEN 2 ELSE 0

(* The sum divided by the four scores that can be 0.                       *)
OverallOfFour(total) == (total * 10) \div 4

(* sum([...]) / 5, lines 187-193, in tenths                                *)
OverallScore(total) == (total * 10) \div 5

(* lines 156-158 and 196-200                                               *)
Suggestions(p, overall) ==
  (IF p.words < ClarityShort
   THEN << "Consider adding more context for clarity" >> ELSE << >>)
  \o (IF overall < 3 * 10
      THEN << "Consider using few-shot examples",
              "Add specific output format requirements" >>
      ELSE << >>)
  \o (IF overall < 2 * 10
      THEN << "Review prompt clarity and specificity" >> ELSE << >>)

AnalyzePromptEffectiveness(p) ==
  LET overall == OverallScore(ClarityScore(p) + SpecificityScore(p)
                              + ConstraintScore(p) + ExamplesScore(p)
                              + FormatScore(p))
  IN  [clarity_score     |-> ClarityScore(p),
       specificity_score |-> SpecificityScore(p),
       constraint_score  |-> ConstraintScore(p),
       examples_score    |-> ExamplesScore(p),
       format_score      |-> FormatScore(p),
       overall_score     |-> overall,
       suggestions       |-> Suggestions(p, overall),
       done              |-> TRUE]

analyze_prompt_effectiveness ==
  /\ ~analysis.done
  /\ analysis' = AnalyzePromptEffectiveness(prompt)
  /\ UNCHANGED <<prompt, documents, vectorizer, document_vectors,
                 argsort_kind, last_call, last_loaded, earlier_terms,
                 requests, running, seed_loads, apiVars, setupVars>>

PromptInit ==
  /\ IndexInit
  /\ ApiInit
  /\ SetupIdle
  /\ prompt \in Prompts
  /\ analysis = NoAnalysis

PromptNext == analyze_prompt_effectiveness

PromptSpec == PromptInit /\ [][PromptNext]_vars

(* ----------------------------- properties ----------------------------- *)

Min(a, b) == IF a < b THEN a ELSE b

Range(s) == { s[i] : i \in 1 .. Len(s) }

Searched == last_call.op = "search_documents"

(* The index holds a corpus whose load completed.                          *)
Loaded == documents # <<>> /\ vectorizer.fitted

(* No corpus is held and the vectorizer was never fitted.                  *)
Empty ==
  /\ documents = <<>>
  /\ vectorizer = UnfittedVectorizer
  /\ document_vectors = <<>>

(* C1: on a non-empty loaded corpus a search with positive top_k returns   *)
(* exactly min(top_k, |C|) results, ranked 1, 2, ... in output order, with *)
(* non-increasing similarity scores.                                       *)
C1_CountRanksOrder ==
  (Searched /\ Loaded /\ last_call.top_k > 0) =>
    /\ last_call.outcome = "ok"
    /\ Len(last_call.results) = Min(last_call.top_k, Len(documents))
    /\ \A p \in 1 .. Len(last_call.results) : last_call.results[p].rank = p
    /\ \A p \in 1 .. Len(last_call.results) - 1 :
         last_call.results[p].similarity_score
           >= last_call.results[p + 1].similarity_score

C1_Witness ==
  /\ Searched /\ Loaded
  /\ Len(documents) = 2
  /\ last_call.top_k = 2
  /\ Len(last_call.results) = 2
  /\ last_call.results[1].similarity_score
       > last_call.results[2].similarity_score
  /\ last_call.results[2].similarity_score > 0

(* C2: documents of equal similarity come out in ascending corpus order,   *)
(* and when top_k cuts between them the lower index is the one returned.   *)
C2_TieLowerIndexFirst ==
  (Searched /\ Loaded /\ last_call.top_k > 0) =>
    \A i, j \in 1 .. Len(documents) :
      (/\ i < j
       /\ last_call.similarities[i] = last_call.similarities[j]
       /\ \E q \in 1 .. Len(last_call.top_indices) : last_call.top_indices[q] = j)
      => \E p, q \in 1 .. Len(last_call.top_indices) :
           /\ last_call.top_indices[p] = i
           /\ last_call.top_indices[q] = j
           /\ p < q

(* C3: a search on the Empty index returns the empty sequence and does not *)
(* raise, whatever the query and top_k.                                    *)
C3_EmptyIndexSearch ==
  (Searched /\ Empty) =>
    /\ last_call.outcome = "ok"
    /\ last_call.results = <<>>

C3_Witness ==
  /\ Searched /\ Empty
  /\ last_call.query = <<"AI">>
  /\ last_call.top_k = 2
  /\ last_call.results = <<>>

(* C4: add_documents with an empty sequence completes without an error,    *)
(* from the Empty and from the Loaded state, and every later search        *)
(* returns the empty sequence.                                             *)
C4_EmptyLoadSucceeds ==
  /\ (last_call.op = "add_documents" /\ last_call.docs = <<>>) =>
        last_call.outcome = "ok"
  /\ (Searched /\ last_loaded = <<>>) =>
        (last_call.outcome = "ok" /\ last_call.results = <<>>)

StaleTerms == earlier_terms \ CorpusTerms(last_loaded)

RECURSIVE WithoutStaleTerms(_)
WithoutStaleTerms(query) ==
  IF query = <<>> THEN <<>>
  ELSE IF Lowercase(Head(query)) \in StaleTerms
       THEN WithoutStaleTerms(Tail(query))
       ELSE <<Head(query)>> \o WithoutStaleTerms(Tail(query))

(* C5: a search that returns reflects only the corpus of the latest        *)
(* add_documents: every returned document is one of its documents, and the *)
(* similarities are those of the query with the terms that occurred only   *)
(* in earlier corpora left out (such a term contributes nothing).          *)
C5_OnlyLatestCorpus ==
  (Searched /\ last_call.outcome = "ok") =>
    /\ \A p \in 1 .. Len(last_call.results) :
         last_call.results[p].document \in Range(last_loaded)
    /\ last_call.similarities =
         SearchSimilarities(documents, vectorizer, document_vectors,
                            WithoutStaleTerms(last_call.query))
    /\ (\A i \in 1 .. Len(last_call.query) :
          Lowercase(last_call.query[i]) \notin CorpusTerms(last_loaded))
       => \A p \in 1 .. Len(last_call.results) :
            last_call.results[p].similarity_score = 0

C5_Witness ==
  /\ Searched /\ last_call.outcome = "ok"
  /\ last_call.query = <<"healthcare", "chatbots">>
  /\ "chatbots" \in StaleTerms
  /\ last_loaded = << <<"AI", "healthcare">> >>
  /\ Len(last_call.results) = 1
  /\ last_call.results[1].similarity_score > 0

(* C6: in every reachable state the vocabulary and the document vectors    *)
(* are the ones derived from the corpus held in documents: one vector per  *)
(* stored document, in corpus order, computed with the current vocabulary. *)
C6_VectorsMatchDocuments ==
  /\ Len(document_vectors) = Len(documents)
  /\ documents # <<>> =>
       /\ vectorizer = FittedVectorizer(documents)
       /\ document_vectors = FitTransform(documents)
  /\ documents = <<>> => vectorizer.vocabulary = {}

StopWordsOnly(doc) ==
  \A i \in 1 .. Len(doc) : doc[i] \in EnglishStopWords

(* C7: a document of stop words only, loaded together with other           *)
(* documents, never makes a search fail and has similarity 0 to every      *)
(* query.                                                                  *)
C7_StopWordDocumentScoresZero ==
  (Searched /\ Loaded /\ \E i \in 1 .. Len(documents) : StopWordsOnly(documents[i])) =>
    /\ last_call.outcome = "ok"
    /\ Len(last_call.similarities) = Len(documents)
    /\ \A i \in 1 .. Len(documents) :
         StopWordsOnly(documents[i]) => last_call.similarities[i] = 0
    /\ \A p \in 1 .. Len(last_call.results) :
         StopWordsOnly(last_call.results[p].document)
           => last_call.results[p].similarity_score = 0

C7_Witness ==
  /\ Searched /\ Loaded
  /\ last_call.query = <<"the", "of">>
  /\ \E p \in 1 .. Len(last_call.results) :
       StopWordsOnly(last_call.results[p].document)
  /\ \E i \in 1 .. Len(documents) : ~StopWordsOnly(documents[i])

DegenerateQuery(query) ==
  \A i \in 1 .. Len(query) :
    \/ query[i] \in EnglishStopWords
    \/ Lowercase(query[i]) \notin CorpusTerms(last_loaded)

(* C8: degenerate inputs never raise: an empty, all-stop-word or           *)
(* out-of-vocabulary query scores 0 on every document, and a corpus whose  *)
(* documents are all stop words loads without error and yields zero        *)
(* scores.                                                                 *)
C8_DegenerateInputsNeverRaise ==
  /\ (last_call.op = "add_documents" /\ last_call.docs # <<>>
        /\ \A i \in 1 .. Len(last_call.docs) : StopWordsOnly(last_call.docs[i]))
       => last_call.outcome = "ok"
  /\ (Searched /\ last_loaded # <<>> /\ DegenerateQuery(last_call.query)) =>
       /\ last_call.outcome = "ok"
       /\ Len(last_call.similarities) = Len(last_loaded)
       /\ \A i \in 1 .. Len(last_call.similarities) :
            last_call.similarities[i] = 0

(* C9: a search with a negative top_k on a loaded index raises; it never   *)
(* returns a result sequence.                                              *)
C9_NegativeTopKRaises ==
  (Searched /\ Loaded /\ last_call.top_k < 0) => last_call.outcome # "ok"

C11_SearchChangesNothing ==
  [][last_call'.op = "search_documents" =>
       /\ documents' = documents
       /\ vectorizer' = vectorizer
       /\ document_vectors' = document_vectors]_vars

C11_Witness ==
  /\ Searched /\ Loaded
  /\ last_call.query = <<"AI">>
  /\ last_call.top_k = 1
  /\ last_call.results # <<>>
  /\ vectorizer = FittedVectorizer(documents)
  /\ document_vectors = FitTransform(documents)

DemoSearched ==
  /\ Searched
  /\ documents = DemoCorpus /\ vectorizer.fitted
  /\ last_call.query = DemoQuery
  /\ last_call.top_k = 2

(* C12: on the demo corpus the query "How is AI improving healthcare?"     *)
(* with top_k = 2 returns the first document at rank 1 and the third at    *)
(* rank 2, and the second document scores strictly lower than both.        *)
C12_DemoScenario ==
  DemoSearched =>
    /\ last_call.outcome = "ok"
    /\ Len(last_call.results) = 2
    /\ last_call.results[1].document = DemoCorpus[1]
    /\ last_call.results[1].rank = 1
    /\ last_call.results[2].document = DemoCorpus[3]
    /\ last_call.results[2].rank = 2
    /\ last_call.similarities[2] < last_call.similarities[1]
    /\ last_call.similarities[2] < last_call.similarities[3]

C12_Witness ==
  /\ DemoSearched
  /\ last_call.results[1].similarity_score > last_call.results[2].similarity_score
  /\ last_call.results[2].similarity_score > 0
  /\ last_call.similarities[2] = 0

(* The query is the text of document i, which has a non-stop-word term.    *)
VerbatimQueryOf(i) ==
  /\ documents[i] = last_call.query
  /\ ~StopWordsOnly(documents[i])

SearchRuns ==
  \E s \in Requests : requests[s].pc = "search" /\ requests'[s].pc # "search"

HalfBuilt == \E r \in Requests : requests[r].pc = "fit"

(* C14: in the request server no search_documents step runs between the    *)
(* assignment of self.documents and the assignment of                      *)
(* self.document_vectors of a load, whatever the interleaving of the       *)
(* /api/rag-search requests.                                               *)
C14_NoSearchInHalfBuiltLoad ==
  [][SearchRuns => ~HalfBuilt]_vars

(* A request has searched the seeded corpus while another request, already *)
(* received, waits for the event loop.                                     *)
C14_Witness ==
  \E r, s \in Requests :
     /\ r # s
     /\ requests[s].pc = "respond"
     /\ requests[r].pc = "ready"
     /\ seed_loads = 1
     /\ last_call.op = "search_documents"

(* C15: the host seeds lazily.  The search of every request runs against   *)
(* the five sample documents, loaded and vectorised, never against an      *)
(* empty corpus; and the corpus is loaded at most once: a request that     *)
(* finds it non-empty does not reload it.                                  *)
C15_LazySeeding ==
  /\ seed_loads <= 1
  /\ (seed_loads = 0) = (documents = <<>>)
  /\ \A r \in Requests :
        requests[r].pc \in { "search", "respond" } =>
          /\ documents = SampleDocs
          /\ Len(documents) = 5
          /\ vectorizer.fitted
          /\ Len(document_vectors) = 5

(* One request has seeded and answered; a later one searches the corpus it *)
(* found.                                                                  *)
C15_Witness ==
  \E r, s \in Requests :
     /\ r # s
     /\ requests[r].response.status = 200
     /\ requests[s].pc = "respond"
     /\ requests[s].search_results # <<>>
     /\ seed_loads = 1

(* C16: a successful response carries the results of search_documents      *)
(* unchanged, a total_documents equal to the size of the corpus the        *)
(* search ran against, and min(top_k, total_documents) results.            *)
C16_ResponseCarriesResults ==
  \A r \in Requests :
     requests[r].response.status = 200 =>
       LET response == requests[r].response
       IN  /\ response.results = requests[r].search_results
           /\ response.total_documents = requests[r].searched_size
           /\ response.total_documents = Len(documents)
           /\ Len(response.results) =
                Min(requests[r].top_k, response.total_documents)

C16_Witness ==
  \E r, s \in Requests :
     /\ requests[r].response.status = 200
     /\ requests[r].top_k = 10
     /\ Len(requests[r].response.results) = 5
     /\ requests[r].response.results[1].similarity_score > 0
     /\ requests[s].response.status = 200
     /\ requests[s].top_k = 3
     /\ Len(requests[s].response.results) = 3
     /\ requests[s].response.results[3].rank = 3

(* C17: the endpoint never calls search_documents with a top_k below 1 or  *)
(* above 10, and a request without top_k searches with 3.                  *)
C17_TopKRestricted ==
  /\ Searched => (last_call.top_k >= 1 /\ last_call.top_k <= 10)
  /\ \A r \in Requests :
        requests[r].pc \in { "ready", "check", "assign", "fit", "search",
                             "respond" }
          \/ requests[r].response.status \in { 200, 500 }
        => /\ requests[r].top_k >= 1
           /\ requests[r].top_k <= 10
           /\ (~requests[r].raw_top_k.given => requests[r].top_k = 3)
           /\ (requests[r].raw_top_k.given =>
                 requests[r].top_k = requests[r].raw_top_k.value)

(* One request was refused for its top_k of 0, another one, without top_k, *)
(* has searched with 3.                                                    *)
C17_Witness ==
  \E r, s \in Requests :
     /\ requests[r].response.status = 422
     /\ requests[r].raw_top_k = [given |-> TRUE, value |-> 0]
     /\ ~requests[s].raw_top_k.given
     /\ requests[s].pc = "respond"
     /\ Searched /\ last_call.top_k = 3

(* C18: every successful load increments a generation counter of the       *)
(* index.  The index is documents, vectorizer and document_vectors: a      *)
(* counter kept by it would make every successful load change that state.  *)
C18_LoadAdvancesGeneration ==
  [][(last_call'.op = "add_documents" /\ last_call'.outcome = "ok") =>
       <<documents, vectorizer, document_vectors>>' #
         <<documents, vectorizer, document_vectors>>]_vars

(* C19: documents are immutable once stored: a mutation by the caller of   *)
(* the list it passed to add_documents changes neither the corpus held by  *)
(* the index nor its size.                                                 *)
C19_StoredDocumentsImmutable ==
  [][last_call'.op = "caller_mutation" =>
       /\ documents' = documents
       /\ Len(documents') = Len(last_loaded)]_vars

(* C20: every similarity score returned by search_documents lies in        *)
(* [0, 1], that is in 0 .. 100000000 in the fixed point of the model.      *)
C20_ScoreInUnitInterval ==
  Searched =>
    \A p \in 1 .. Len(last_call.results) :
       /\ last_call.results[p].similarity_score >= 0
       /\ last_call.results[p].similarity_score <= 100000000

(* C21: when add_documents raises, the index is as before the call:        *)
(* documents, the vocabulary and idf, and document_vectors are unchanged.  *)
C21_FailedLoadChangesNothing ==
  [][(last_call'.op = "add_documents" /\ last_call'.outcome # "ok") =>
       /\ documents' = documents
       /\ vectorizer' = vectorizer
       /\ document_vectors' = document_vectors]_vars

(* The number written in the four characters after "proj_".                *)
DigitValue(ch) == (CHOOSE d \in 1 .. 10 : DigitChars[d] = ch) - 1

IdNumber(id) ==
  1000 * DigitValue(id[2]) + 100 * DigitValue(id[3])
    + 10 * DigitValue(id[4]) + DigitValue(id[5])

StoredIds == DOMAIN projects_db

CreatesDone == { c \in Creators : create_calls[c].status = 200 }

(* C22: project ids are generated atomically and are unique.  Stored       *)
(* projects have pairwise distinct ids of the form proj_NNNN, no create    *)
(* has overwritten an entry (there are as many entries as answered         *)
(* creates), ids are issued in strictly increasing counter order, and      *)
(* between two handlers len(projects_db) equals project_counter.           *)
C22_UniqueProjectIds ==
  /\ \A id \in StoredIds :
        /\ projects_db[id].id = id
        /\ Len(id) = 5
        /\ id[1] = "proj_"
        /\ \A p \in 2 .. 5 : \E d \in 1 .. 10 : DigitChars[d] = id[p]
        /\ IdNumber(id) \in 1 .. project_counter
  /\ \A a, b \in StoredIds : a # b => projects_db[a].id # projects_db[b].id
  /\ \A a, b \in CreatesDone :
        a # b => create_calls[a].project_id # create_calls[b].project_id
  /\ Cardinality(StoredIds) = Cardinality(CreatesDone)
  /\ \A i, j \in 1 .. Len(issued) : i < j => issued[i] < issued[j]
  /\ running = 0 => Cardinality(StoredIds) = project_counter

C22_Witness ==
  /\ \A c \in Creators : create_calls[c].status = 200
  /\ project_counter = MaxCreates
  /\ StoredIds = { FormatProjectId(k) : k \in 1 .. MaxCreates }
  /\ \E a, b \in StoredIds : projects_db[a].name # projects_db[b].name
  /\ running = 0

(* A step of get_project or update_project_metrics, and its answer.        *)
LookupStep ==
  /\ create_calls' = create_calls
  /\ api_response'.endpoint \in { "get_project", "update_project_metrics" }

(* C23: get_project and update_project_metrics with an id that is not in   *)
(* projects_db answer 404 "Project not found" and leave projects_db and    *)
(* project_counter unchanged; with an id returned by an earlier            *)
(* create_project they succeed.  No step removes a project.                *)
C23_UnknownIdIs404 ==
  [][/\ StoredIds \subseteq DOMAIN projects_db'
     /\ LookupStep =>
          LET id == api_response'.project_id
          IN  /\ id \notin StoredIds =>
                   /\ api_response'.status = 404
                   /\ api_response'.detail = "Project not found"
                   /\ projects_db' = projects_db
                   /\ project_counter' = project_counter
              /\ (\E c \in CreatesDone : create_calls[c].project_id = id) =>
                   /\ api_response'.status = 200
                   /\ api_response'.success
              /\ api_response'.status \in { 200, 404 }]_vars

C23_Witness ==
  /\ api_response.endpoint = "update_project_metrics"
  /\ api_response.status = 404
  /\ api_response.project_id = FormatProjectId(2)
  /\ StoredIds = { FormatProjectId(1) }
  /\ project_counter = 1

(* C24: a successful update_project_metrics(id, metrics) changes only the  *)
(* performance_metrics of project id; there, the keys of the request take  *)
(* the request's values, the other keys keep theirs, and last_updated is   *)
(* the server's time whatever the request says.                            *)
C24_UpdateChangesOnlyMetrics ==
  [][(LookupStep /\ api_response'.endpoint = "update_project_metrics"
        /\ api_response'.status = 200) =>
       LET id      == api_response'.project_id
           metrics == api_response'.body
           before  == projects_db[id].performance_metrics
           after   == projects_db'[id].performance_metrics
       IN  /\ DOMAIN projects_db' = StoredIds
           /\ \A other \in StoredIds \ { id } :
                 projects_db'[other] = projects_db[other]
           /\ projects_db'[id].id = projects_db[id].id
           /\ projects_db'[id].name = projects_db[id].name
           /\ projects_db'[id].description = projects_db[id].description
           /\ projects_db'[id].model_type = projects_db[id].model_type
           /\ projects_db'[id].use_case = projects_db[id].use_case
           /\ projects_db'[id].created_date = projects_db[id].created_date
           /\ projects_db'[id].status = projects_db[id].status
           /\ DOMAIN after = DOMAIN before \cup DOMAIN metrics
           /\ \A k \in DOMAIN before \ (DOMAIN metrics \cup { "last_updated" }) :
                 after[k] = before[k]
           /\ \A k \in DOMAIN metrics \ { "last_updated" } :
                 after[k] = metrics[k]
           /\ after["last_updated"] = ServerTime
           /\ project_counter' = project_counter]_vars

C24_Witness ==
  /\ api_response.endpoint = "update_project_metrics"
  /\ api_response.status = 200
  /\ "last_updated" \in DOMAIN api_response.body
  /\ api_response.body["last_updated"] = "client time"
  /\ Cardinality(StoredIds) = 2
  /\ LET m == projects_db[api_response.project_id].performance_metrics
     IN  /\ m["last_updated"] = ServerTime
         /\ m["accuracy"] = "0.9"
         /\ "f1" \in DOMAIN m /\ m["f1"] = "0.8"
         /\ m["latency"] = "0.0"

(* C25: /api/stats reports active_projects equal to total_projects and     *)
(* total_projects equal to the number of answered create_project calls,    *)
(* and the number of projects never decreases.                             *)
C25_StatsCountProjects ==
  [][/\ Cardinality(DOMAIN projects_db') >= Cardinality(StoredIds)
     /\ (create_calls' = create_calls
          /\ api_response'.endpoint = "get_api_stats") =>
          /\ api_response'.body.active_projects =
                api_response'.body.total_projects
          /\ api_response'.body.total_projects = Cardinality(CreatesDone)
          /\ api_response'.body.total_projects = Cardinality(StoredIds)]_vars

C25_Witness ==
  /\ api_response.endpoint = "get_api_stats"
  /\ api_response.body.total_projects = 2
  /\ api_response.body.active_projects = 2
  /\ \E id \in StoredIds : projects_db[id].performance_metrics["accuracy"] = "0.9"

(* C26: when the sentiment or text-generation pipeline raises, the         *)
(* endpoint answers 500 and never "success": true.                         *)
C26_PipelineFailureIsAnError ==
  api_response.pipeline_raised =>
    /\ api_response.status = 500
    /\ ~api_response.success

SetupEnded == setup_pc \in { "returned", "raised" }

HasRun(step) == \E i \in 1 .. Len(setup_log) : setup_log[i].step = step

(* C27: Node.js problems are not fatal for setup().  On a machine where    *)
(* the Python steps succeed and files can be written, setup() returns True *)
(* and has run create_web_app, create_demo_scripts and                     *)
(* create_presentation_materials even if Node.js or npm is missing or npm  *)
(* install fails; no exception escapes.                                    *)
C27_NodeProblemsNonFatal ==
  (/\ SetupEnded
   /\ setup_env.node # "ok" \/ setup_env.npm # "ok"
   /\ setup_env.python = "ok" /\ setup_env.py_files = "ok"
   /\ setup_env.pip = "ok"
   /\ setup_env.fs = "ok" /\ setup_env.path = "absolute")
  => /\ setup_result = "True"
     /\ HasRun("create_web_app")
     /\ HasRun("create_demo_scripts")
     /\ HasRun("create_presentation_materials")

(* C28: setup() runs its steps in a fixed order and stops at the first     *)
(* fatal failure.  A False of check_python_version,                        *)
(* install_python_dependencies, create_web_app, create_demo_scripts or     *)
(* create_presentation_materials is the last step run and makes setup()    *)
(* return False; print_final_instructions runs, and True is returned, only *)
(* after all of these returned True; install_node_dependencies runs only   *)
(* after check_node_version returned True.                                 *)
C28_FixedOrderStopsAtFailure ==
  LET n       == Len(setup_log)
      fatal   == { "check_python_version", "install_python_dependencies",
                   "create_web_app", "create_demo_scripts",
                   "create_presentation_materials" }
      order   == << "check_python_version", "check_node_version",
                    "install_python_dependencies",
                    "install_node_dependencies", "create_web_app",
                    "install_web_dependencies", "create_demo_scripts",
                    "create_presentation_materials", "run_tests",
                    "print_final_instructions" >>
      at(step) == CHOOSE k \in 1 .. 10 : order[k] = step
  IN  /\ \A i, j \in 1 .. n :
            i < j => at(setup_log[i].step) < at(setup_log[j].step)
      /\ \A i \in 1 .. n :
            (setup_log[i].step \in fatal /\ setup_log[i].result = "False") =>
              /\ i = n
              /\ setup_pc = "returned"
              /\ setup_result = "False"
      /\ setup_result = "False" =>
            /\ n > 0
            /\ setup_log[n].step \in fatal
            /\ setup_log[n].result = "False"
      /\ HasRun("print_final_instructions") =>
            \A f \in fatal :
               \E i \in 1 .. n :
                  setup_log[i].step = f /\ setup_log[i].result = "True"
      /\ setup_result = "True" =>
            /\ n > 0
            /\ setup_log[n].step = "print_final_instructions"
      /\ HasRun("install_node_dependencies") =>
            /\ setup_log[2].step = "check_node_version"
            /\ setup_log[2].result = "True"
      /\ n > 0 => setup_log[1].step = "check_python_version"

(* pip fails on a machine with Node.js: setup() has returned False after   *)
(* its third step.                                                         *)
C28_Witness ==
  /\ setup_result = "False"
  /\ setup_pc = "returned"
  /\ Len(setup_log) = 3
  /\ setup_log[2] = [step |-> "check_node_version", result |-> "True"]
  /\ setup_log[3] = [step |-> "install_python_dependencies",
                     result |-> "False"]
  /\ setup_env.pip = "fails"

(* C29: install_node_dependencies and install_web_dependencies leave the   *)
(* process in project_root on every exit path taken after they changed     *)
(* directory, and leave the working directory alone when they return False *)
(* because the directory or package.json is missing.                       *)
C29_WorkingDirectoryRestored ==
  [][/\ (setup_pc = "install_node_dependencies"
          /\ Len(setup_log') > Len(setup_log)) =>
          IF Exists(setup_env, cwd, setup_env.js_files = "ok")
          THEN cwd' = "project_root"
          ELSE cwd' = cwd /\ setup_log'[Len(setup_log')].result = "False"
     /\ (setup_pc = "install_web_dependencies"
          /\ Len(setup_log') > Len(setup_log)) =>
          IF Exists(setup_env, cwd, TRUE)
          THEN cwd' = "project_root"
          ELSE cwd' = cwd /\ setup_log'[Len(setup_log')].result = "False"]_vars

SubScoreSum ==
  analysis.clarity_score + analysis.specificity_score
    + analysis.constraint_score + analysis.examples_score
    + analysis.format_score

Suggested(text) ==
  \E i \in 1 .. Len(analysis.suggestions) : analysis.suggestions[i] = text

(* C30: overall_score is the sum of the five sub-scores divided by 5, with *)
(* clarity in {2,4,5}, specificity in 0..5, constraint in {0,2,3,5},       *)
(* examples in {0,3} and format in {0,2}; the sum lies in 2..20 and        *)
(* overall_score in [0.4, 4.0] (4..40 tenths); "Review prompt clarity and  *)
(* specificity" is suggested only together with "Consider using few-shot   *)
(* examples" and "Add specific output format requirements".                *)
C30_PromptScores ==
  analysis.done =>
    /\ analysis.overall_score * 5 = SubScoreSum * 10
    /\ analysis.clarity_score \in { 2, 4, 5 }
    /\ analysis.specificity_score \in 0 .. 5
    /\ analysis.constraint_score \in { 0, 2, 3, 5 }
    /\ analysis.examples_score \in { 0, 3 }
    /\ analysis.format_score \in { 0, 2 }
    /\ SubScoreSum \in 2 .. 20
    /\ analysis.overall_score \in 4 .. 40
    /\ Suggested("Review prompt clarity and specificity") =>
          /\ Suggested("Consider using few-shot examples")
          /\ Suggested("Add specific output format requirements")

(* A long prompt with every looked-for kind of string reaches the largest  *)
(* sum, 20, and gets no suggestion.                                        *)
C30_Witness ==
  /\ analysis.done
  /\ SubScoreSum = 20
  /\ analysis.overall_score = 40
  /\ analysis.specificity_score = 5
  /\ analysis.suggestions = << >>
  /\ prompt.words = 200

====
